---- MODULE Spec2Model ----
(***************************************************************************)
(* Pdist operator: the host-side planner (op_host/pdist.cpp: TilingFunc,   *)
(* InferShape), the tiling record handed to the device, and the per-core   *)
(* kernel (op_kernel/pdist.cpp: pdist, KernelPdist::Init / Process /       *)
(* ComputeAndSave / CopyRow), with the CPU reference of the test harness   *)
(* (TestPdist/main.cpp: cpu_pdist) as the oracle.                          *)
(*                                                                         *)
(* uint32_t is modelled at a reduced width: HostBits bits in the planner,  *)
(* KernelBits bits in the kernel; uint64_t / int64_t have twice that       *)
(* width.  Every unsigned operation of the code is reduced modulo the      *)
(* width of its C type.  float values are modelled as exact numbers.       *)
(*                                                                         *)
(* The kernel is modelled twice: per core with one step per loop           *)
(* iteration (unit), for what the cores compute and write together, and    *)
(* for a single core statement by statement (st), for its queues.          *)
(***************************************************************************)
EXTENDS Integers, Sequences, FiniteSets, TLC

\* ------------------------------------------------------------------ bounds
HostBits == 6
KernelBits == 5
MaxN == 5
MaxCores == 2
MaxCells == 3
MaxHalfN == 3

HostMod == 2 ^ HostBits
KernelMod == 2 ^ KernelBits

\* uint32_t arithmetic of the planner and of the kernel
HU32(v) == v % HostMod
KU32(v) == v % KernelMod

\* int64_t of the planner: twice the width of uint32_t, signed
HostI64Max == 2 ^ (2 * HostBits - 1) - 1

\* ------------------------------------------------------------------ floats
\* A float exponent: a finite number or +infinity.
Fp(v) == [inf |-> FALSE, v |-> v]
FpInf == [inf |-> TRUE, v |-> 0]

\* A float result: a finite number num^(1/root), +infinity or NaN.
Fin(v) == [k |-> "fin", num |-> v, root |-> 1]
Inf == [k |-> "inf", num |-> 0, root |-> 1]
NaN == [k |-> "nan", num |-> 0, root |-> 1]
NoValue == [k |-> "none", num |-> 0, root |-> 1]

\* The r-th root of the integer s >= 0, exact: an integer when s is a
\* perfect r-th power, the symbolic root otherwise.
RootOf(s, r) ==
    IF \E t \in 0..s : t ^ r = s
    THEN Fin(CHOOSE t \in 0..s : t ^ r = s)
    ELSE [k |-> "fin", num |-> s, root |-> r]

\* ------------------------------------------------------------------ state
VARIABLES
    ctx,          \* the planner's context: shape, attribute, dtype, platform
    xGm,          \* the input matrix, row-major, n*m elements
    xTail,        \* what the memory following the input buffer holds
    phase,        \* "infer" -> "tiling" -> "run" | "failed"
    inferStatus,  \* InferShape's return value
    yShape,       \* the output shape InferShape sets
    tilingStatus, \* TilingFunc's return value
    blockDim,     \* the value given to SetBlockDim, -1 while not called
    rawTiling,    \* the raw tiling buffer: byte offset -> stored word
    dataSize,     \* the raw tiling buffer's data size
    unit,         \* per core: the KernelPdist object and its position
    yRaw,         \* the output memory: index -> value last written
    written,      \* per output index: 1 after one write, 2 after more
    writers,      \* per output index: the cores that wrote it
    calls,        \* per pair <<i, j>>: 1 after one ComputeAndSave, 2 after more
    st            \* one core's Process followed statement by statement

vars == <<ctx, xGm, xTail, phase, inferStatus, yShape, tilingStatus, blockDim,
          rawTiling, dataSize, unit, yRaw, written, writers, calls, st>>

hostVars == <<inferStatus, yShape, tilingStatus, blockDim, rawTiling, dataSize>>
devVars == <<unit, yRaw, written, writers, calls>>

\* ------------------------------------------------------------------ tiling record
\* op_host/pdist_tiling.h: the fields of PdistTilingData in declaration order.
PdistTilingData ==
    << [name |-> "n", ty |-> "uint32_t"],
       [name |-> "m", ty |-> "uint32_t"],
       [name |-> "p", ty |-> "float"],
       [name |-> "tileLength", ty |-> "uint32_t"],
       [name |-> "usedCoreNum", ty |-> "uint32_t"],
       [name |-> "tilingKey", ty |-> "uint32_t"] >>

\* the struct with tileLength and usedCoreNum declared the other way round
KernelTilingDataSwapped ==
    << [name |-> "n", ty |-> "uint32_t"],
       [name |-> "m", ty |-> "uint32_t"],
       [name |-> "p", ty |-> "float"],
       [name |-> "usedCoreNum", ty |-> "uint32_t"],
       [name |-> "tileLength", ty |-> "uint32_t"],
       [name |-> "tilingKey", ty |-> "uint32_t"] >>

\* op_kernel/pdist.cpp: the fields of struct KernelTilingData in declaration order.
KernelTilingData ==
    << [name |-> "n", ty |-> "uint32_t"],
       [name |-> "m", ty |-> "uint32_t"],
       [name |-> "p", ty |-> "float"],
       [name |-> "tileLength", ty |-> "uint32_t"],
       [name |-> "usedCoreNum", ty |-> "uint32_t"],
       [name |-> "tilingKey", ty |-> "uint32_t"] >>

\* sizeof of a field type, in bytes
SizeOf(ty) == IF ty = "uint32_t" THEN 4 ELSE IF ty = "float" THEN 4 ELSE 2

RECURSIVE OffsetOf(_, _)
\* Byte offset of the k-th field of a record layout (fields are packed:
\* all have the same 4-byte alignment).
OffsetOf(layout, k) ==
    IF k = 1 THEN 0 ELSE OffsetOf(layout, k - 1) + SizeOf(layout[k - 1].ty)

LayoutSize(layout) ==
    IF Len(layout) = 0 THEN 0
    ELSE OffsetOf(layout, Len(layout)) + SizeOf(layout[Len(layout)].ty)

FieldIndex(layout, name) == CHOOSE k \in 1..Len(layout) : layout[k].name = name

\* A word of the raw buffer nobody has stored to.
Untouched == [ty |-> "none", v |-> Fp(0)]

\* The offsets at which a word can start.
TilingOffsets == {4 * k : k \in 0..5}

\* SaveToBuffer: every field of the host record, in declaration order, at
\* its offset. `tiling` maps field names to the values the setters stored.
SaveToBuffer(tiling) ==
    [off \in TilingOffsets |->
        IF \E k \in 1..Len(PdistTilingData) : OffsetOf(PdistTilingData, k) = off
        THEN LET k == CHOOSE k \in 1..Len(PdistTilingData) :
                          OffsetOf(PdistTilingData, k) = off
             IN [ty |-> PdistTilingData[k].ty, v |-> tiling[PdistTilingData[k].name]]
        ELSE Untouched]

\* tDataGM-><field>: the word at the field's offset in the kernel's struct,
\* read with the field's type. A word stored with another type reads as
\* different bits.
Reinterpreted(w) == [inf |-> ~w.v.inf, v |-> w.v.v + 1]
ReadField(raw, name) ==
    LET k == FieldIndex(KernelTilingData, name)
        w == raw[OffsetOf(KernelTilingData, k)]
    IN IF w.ty = KernelTilingData[k].ty THEN w.v ELSE Reinterpreted(w)

\* ------------------------------------------------------------------ planner
\* op_host/pdist.cpp:37  uint32_t align = 32
Align == 32

\* op_host/pdist.cpp:38-44: bytes per element for the input's data type
TypeSizeOf(dtype) == IF dtype = "DT_FLOAT" THEN 4 ELSE 2

\* the rounding without the + align - 1: rounds down
TileLengthOfDown(m, typeSize) ==
    LET rowSize == HU32(m * typeSize)
        alignedRowSize == HU32((rowSize \div Align) * Align)
    IN alignedRowSize \div typeSize

\* op_host/pdist.cpp:47-49: the row width rounded up to 32 bytes, in
\* elements; every step is a uint32_t operation.
TileLengthOf(m, typeSize) ==
    LET rowSize == HU32(m * typeSize)
        alignedRowSize == HU32((HU32(rowSize + Align - 1) \div Align) * Align)
    IN alignedRowSize \div typeSize

\* the collapse taken with <= in place of <
UsedCoreNumOfLe(n, aicoreNum) == IF n <= aicoreNum THEN 1 ELSE aicoreNum

\* op_host/pdist.cpp:52-58: all cores, or one when there are fewer rows
\* than cores.
UsedCoreNumOf(n, aicoreNum) == IF n < aicoreNum THEN 1 ELSE aicoreNum

\* op_host/pdist.cpp:19: the attribute, or 2.0 when it is absent
AttrP(attr) == IF attr.present THEN attr.val ELSE Fp(2)

\* op_host/pdist.cpp:74-81: the values the setters store in the record
TilingOf(c) ==
    LET n == HU32(c.dim0)
        m == HU32(c.dim1)
    IN [n |-> Fp(n),
        m |-> Fp(m),
        p |-> AttrP(c.pAttr),
        tileLength |-> Fp(TileLengthOf(m, TypeSizeOf(c.dtype))),
        usedCoreNum |-> Fp(UsedCoreNumOf(n, c.aicoreNum)),
        tilingKey |-> Fp(1)]

\* the platform check made after SetBlockDim
TilingFuncLateCheck ==
    /\ phase = "tiling"
    /\ blockDim' = TilingOf(ctx).usedCoreNum.v
    /\ IF ~ctx.platformInfo
       THEN /\ tilingStatus' = "GRAPH_FAILED"
            /\ phase' = "failed"
            /\ UNCHANGED <<rawTiling, dataSize>>
       ELSE /\ rawTiling' = SaveToBuffer(TilingOf(ctx))
            /\ dataSize' = LayoutSize(PdistTilingData)
            /\ tilingStatus' = "GRAPH_SUCCESS"
            /\ phase' = "launch"
    /\ UNCHANGED <<st, ctx, xGm, xTail, inferStatus, yShape, devVars>>

\* op_host/pdist.cpp:13-88
TilingFunc ==
    /\ phase = "tiling"
    /\ IF ~ctx.platformInfo
       THEN /\ tilingStatus' = "GRAPH_FAILED"
            /\ phase' = "failed"
            /\ UNCHANGED <<blockDim, rawTiling, dataSize>>
       ELSE /\ blockDim' = TilingOf(ctx).usedCoreNum.v
            /\ rawTiling' = SaveToBuffer(TilingOf(ctx))
            /\ dataSize' = LayoutSize(PdistTilingData)
            /\ tilingStatus' = "GRAPH_SUCCESS"
            /\ phase' = "launch"
    /\ UNCHANGED <<st, ctx, xGm, xTail, inferStatus, yShape, devVars>>

\* int64_t: the value of a product that does not fit wraps (two's complement)
I64Wrap(v) ==
    LET w == v % (2 * (HostI64Max + 1))
    IN IF w > HostI64Max THEN w - 2 * (HostI64Max + 1) ELSE w

\* C's integer division truncates toward zero
CDiv(a, b) == IF a >= 0 THEN a \div b ELSE -((-a) \div b)

\* op_host/pdist.cpp:93-106.  n * (n - 1) is an int64_t product; when it
\* does not fit, the behaviour is undefined: the build either wraps or traps.
InferShape ==
    /\ phase = "infer"
    /\ IF ~ctx.inShapeOk \/ ~ctx.outShapeOk
       THEN /\ inferStatus' = "GRAPH_FAILED"
            /\ phase' = "failed"
            /\ UNCHANGED yShape
       ELSE LET n == ctx.dim0
                prod == n * (n - 1)
            IN IF prod <= HostI64Max
               THEN /\ yShape' = <<prod \div 2>>
                    /\ inferStatus' = "GRAPH_SUCCESS"
                    /\ phase' = "tiling"
               ELSE \/ /\ yShape' = <<CDiv(I64Wrap(prod), 2)>>
                       /\ inferStatus' = "GRAPH_SUCCESS"
                       /\ phase' = "tiling"
                    \/ /\ inferStatus' = "trapped"
                       /\ phase' = "failed"
                       /\ UNCHANGED yShape
    /\ UNCHANGED <<st, ctx, xGm, xTail, tilingStatus, blockDim, rawTiling, dataSize,
                   devVars>>

\* ------------------------------------------------------------------ launch
\* TestPdist/main.cpp:134-145, 191: the harness allocates N*M input elements
\* and N*(N-1)/2 output elements and launches the kernel on blockDim cores.
IdleUnit ==
    [pc |-> "entry", n |-> 0, m |-> 0, p |-> Fp(0), tileLength |-> 0,
     totalCoreNum |-> 0, coreId |-> 0, i |-> 0, j |-> 0, rowI |-> <<>>]

Launch ==
    /\ phase = "launch"
    /\ phase' = "run"
    /\ unit' = [u \in 0..(blockDim - 1) |-> IdleUnit]
    /\ UNCHANGED <<st, ctx, xGm, xTail, hostVars, yRaw, written, writers, calls>>

\* ------------------------------------------------------------------ kernel
\* xGm[e]: element e of the input as the kernel addresses it; past the
\* buffer's end the read returns whatever the memory holds.
\* The kernel addresses the buffer as float (op_kernel/pdist.cpp:37): on a
\* half-precision input, float element e is the two halves 2e and 2e + 1,
\* given here by the word's bits (the float 0.0 for two zero halves).
HalfRead(h) == IF h < Len(xGm) THEN xGm[h + 1] ELSE xTail
GmRead(e) ==
    IF ctx.dtype = "DT_FLOAT"
    THEN (IF e < Len(xGm) THEN xGm[e + 1] ELSE xTail)
    ELSE HalfRead(2 * e) + 2 ^ 16 * HalfRead(2 * e + 1)

\* op_kernel/pdist.cpp:126-128: tileLength consecutive elements starting at
\* element rowIdx * m (a uint32_t product).
CopyRow(k, rowIdx) ==
    [c \in 1..k.tileLength |-> GmRead(KU32(rowIdx * k.m) + (c - 1))]

\* op_kernel/pdist.cpp:127: the element offset rowIdx * m as the kernel
\* computes it, and the elements one DataCopy of tileLength elements reads.
CopyRowOffset(k, rowIdx) == KU32(rowIdx * k.m)
CopyRowRange(k, rowIdx) ==
    {CopyRowOffset(k, rowIdx) + c : c \in 0..(k.tileLength - 1)}

\* op_kernel/pdist.cpp:114: (uint64_t)(2 * n - 1 - i) * i / 2 + (j - i - 1).
\* 2 * n - 1 - i is a uint32_t expression; the product is 64-bit.
OutIdx(n, i, j) ==
    (KU32(2 * n - 1 - i + 2 * KernelMod) * i) \div 2 + KU32(j - i - 1 + KernelMod)

\* op_kernel/pdist.cpp:37, 39, 42-43, 136-137: the kernel's element type is
\* float whatever the input's type is.
KernelElemSize == SizeOf("float")
\* the bytes one row fetch reads, a staging slot's size, and the bytes the
\* write of pair (i, j) stores
FetchBytes(k, rowIdx) ==
    [off |-> CopyRowOffset(k, rowIdx) * KernelElemSize,
     len |-> k.tileLength * KernelElemSize]
SlotBytes(k) == k.tileLength * KernelElemSize
WriteBytes(k, i, j) ==
    [off |-> OutIdx(k.n, i, j) * KernelElemSize, len |-> KernelElemSize]

AbsVal(a) == IF a < 0 THEN -a ELSE a

RECURSIVE SumSeq(_)
SumSeq(s) == IF Len(s) = 0 THEN 0 ELSE s[1] + SumSeq(Tail(s))

\* op_kernel/pdist.cpp:97-100: exp(p * ln(d + 1e-20)) for one element d >= 0.
\* In float, d + 1e-20 = d for d >= 1, and (1e-20)^p underflows to 0 for
\* p >= 3; p * ln(1) is inf * 0 = NaN for p = +inf.
ExpPLn(d, p) ==
    IF p.inf
    THEN IF d = 0 THEN Fin(0) ELSE IF d = 1 THEN NaN ELSE Inf
    ELSE IF p.v = 0 THEN Fin(1)
         ELSE IF d = 0 THEN Fin(0) ELSE Fin(d ^ p.v)

\* ReduceSum of float terms
ReduceSumVals(ts) ==
    IF \E c \in DOMAIN ts : ts[c].k = "nan" THEN NaN
    ELSE IF \E c \in DOMAIN ts : ts[c].k = "inf" THEN Inf
    ELSE Fin(SumSeq([c \in DOMAIN ts |-> ts[c].num]))

\* op_kernel/pdist.cpp:81-111: the scalar the kernel computes from the two
\* staged rows, over all tileLength positions.
Distance(rowI, rowJ, p) ==
    LET d == [c \in DOMAIN rowI |-> AbsVal(rowI[c] - rowJ[c])]
    IN IF p = Fp(1) THEN Fin(SumSeq(d))
       ELSE IF p = Fp(2) THEN RootOf(SumSeq([c \in DOMAIN d |-> d[c] * d[c]]), 2)
       ELSE ReduceSumVals([c \in DOMAIN d |-> ExpPLn(d[c], p)])

\* counting an event per key: once (1), or more than once (2)
Bump(f, key) ==
    IF key \in DOMAIN f THEN [f EXCEPT ![key] = 2] ELSE f @@ (key :> 1)

Put(f, key, v) == IF key \in DOMAIN f THEN [f EXCEPT ![key] = v] ELSE f @@ (key :> v)

\* op_kernel/pdist.cpp:146-165, 26-48, 51, 54: the entry point copies the
\* record, Init takes its fields, Process returns at once on a core that is
\* not active and otherwise starts the outer loop at i = coreId.
pdist(u) ==
    /\ phase = "run"
    /\ u \in DOMAIN unit
    /\ unit[u].pc = "entry"
    /\ LET totalCoreNum == KU32(ReadField(rawTiling, "usedCoreNum").v)
       IN unit' = [unit EXCEPT ![u] =
              [pc |-> IF u >= totalCoreNum THEN "done" ELSE "outer",
               n |-> KU32(ReadField(rawTiling, "n").v),
               m |-> KU32(ReadField(rawTiling, "m").v),
               p |-> ReadField(rawTiling, "p"),
               tileLength |-> KU32(ReadField(rawTiling, "tileLength").v),
               totalCoreNum |-> totalCoreNum,
               coreId |-> u,
               i |-> u,
               j |-> 0,
               rowI |-> <<>>]]
    /\ UNCHANGED <<st, ctx, xGm, xTail, phase, hostVars, yRaw, written, writers, calls>>

\* op_kernel/pdist.cpp:54-60: the outer loop's test; row i is staged and
\* the inner loop starts at j = i + 1.
OuterStep(u) ==
    /\ phase = "run"
    /\ u \in DOMAIN unit
    /\ unit[u].pc = "outer"
    /\ LET k == unit[u]
       IN unit' = [unit EXCEPT ![u] =
              IF k.i < k.n
              THEN [k EXCEPT !.pc = "inner", !.rowI = CopyRow(k, k.i),
                             !.j = KU32(k.i + 1)]
              ELSE [k EXCEPT !.pc = "done"]]
    /\ UNCHANGED <<st, ctx, xGm, xTail, phase, hostVars, yRaw, written, writers, calls>>

\* op_kernel/pdist.cpp:60-62, 69-124: one inner iteration.
ComputeAndSave(u) ==
    /\ phase = "run"
    /\ u \in DOMAIN unit
    /\ unit[u].pc = "inner"
    /\ unit[u].j < unit[u].n
    /\ LET k == unit[u]
           rowJ == CopyRow(k, k.j)
           result == Distance(k.rowI, rowJ, k.p)
           outIdx == OutIdx(k.n, k.i, k.j)
       IN /\ yRaw' = Put(yRaw, outIdx, result)
          /\ written' = Bump(written, outIdx)
          /\ writers' = Put(writers, outIdx,
                            (IF outIdx \in DOMAIN writers THEN writers[outIdx] ELSE {})
                                \cup {u})
          /\ calls' = Bump(calls, <<k.i, k.j>>)
          /\ unit' = [unit EXCEPT ![u].j = KU32(k.j + 1)]
    /\ UNCHANGED <<st, ctx, xGm, xTail, phase, hostVars>>

\* op_kernel/pdist.cpp:60, 64, 54: the inner loop ends, row i is released
\* and i += totalCoreNum (uint32_t).
InnerExit(u) ==
    /\ phase = "run"
    /\ u \in DOMAIN unit
    /\ unit[u].pc = "inner"
    /\ ~(unit[u].j < unit[u].n)
    /\ LET k == unit[u]
       IN unit' = [unit EXCEPT ![u] =
              [k EXCEPT !.pc = "outer", !.rowI = <<>>,
                        !.i = KU32(k.i + k.totalCoreNum)]]
    /\ UNCHANGED <<st, ctx, xGm, xTail, phase, hostVars, yRaw, written, writers, calls>>

\* ------------------------------------------------------------------ one core, by statement
\* op_kernel/pdist.cpp:20, 132-134: the depths of the four queues
BUFFER_NUM == 2
WorkDepth == 1
OutDepth == 1

\* a queue: the tensors allocated and not freed, and those enqueued and not
\* dequeued
EmptyQue == [alloc |-> 0, enq |-> 0]
AllocTensor(q) == [q EXCEPT !.alloc = @ + 1]
EnQue(q) == [q EXCEPT !.enq = @ + 1]
DeQue(q) == [q EXCEPT !.enq = IF @ > 0 THEN @ - 1 ELSE 0]
FreeTensor(q) == [q EXCEPT !.alloc = IF @ > 0 THEN @ - 1 ELSE 0]

\* The core before Process: its members as Init set them, empty queues, and
\* the record of what it has done: the row rowI holds (-1: none), the rows
\* j fetched and not consumed, whether the vector work on a row j is under
\* way, how often each row i was fetched, the fetches of the current inner
\* iteration, the last j and the last output index written, and whether
\* an AllocTensor found no free slot, a DeQue found nothing enqueued, a
\* write came out of order, an output index did not increase, or a fetch
\* was issued during the work on the row before.
IdleStage ==
    [pc |-> "idle", n |-> 0, totalCoreNum |-> 0, coreId |-> 0, i |-> 0, j |-> 0,
     qI |-> EmptyQue, qJ |-> EmptyQue, qW |-> EmptyQue, qO |-> EmptyQue,
     held |-> -1, pendingJ |-> 0, computing |-> FALSE,
     fetchI |-> <<>>, jFetches |-> 0, lastJ |-> -1, lastOut |-> -1,
     badAlloc |-> FALSE, badDeQue |-> FALSE, ordered |-> TRUE,
     increasing |-> TRUE, overlapSeen |-> FALSE]

StageFrame == UNCHANGED <<ctx, xGm, xTail, phase, hostVars, devVars>>

\* op_kernel/pdist.cpp:51, 54: Process returns at once on a core that is not
\* active, and otherwise starts the outer loop at i = coreId.
StProcess ==
    /\ st.pc = "entry"
    /\ st' = [st EXCEPT !.pc = IF st.coreId >= st.totalCoreNum THEN "done" ELSE "outer",
                        !.i = st.coreId]
    /\ StageFrame

\* op_kernel/pdist.cpp:54: the outer loop's test i < n
StOuterTest ==
    /\ st.pc = "outer"
    /\ st' = [st EXCEPT !.pc = IF st.i < st.n THEN "allocI" ELSE "done"]
    /\ StageFrame

\* op_kernel/pdist.cpp:55: rowI = inQueueI.AllocTensor()
StAllocRowI ==
    /\ st.pc = "allocI"
    /\ st' = [st EXCEPT !.pc = "copyI", !.qI = AllocTensor(@),
                        !.badAlloc = @ \/ st.qI.alloc >= BUFFER_NUM]
    /\ StageFrame

\* op_kernel/pdist.cpp:56: CopyRow(rowI, i)
StCopyRowI ==
    /\ st.pc = "copyI"
    /\ st' = [st EXCEPT !.pc = "enqI", !.held = st.i, !.lastJ = st.i,
                        !.fetchI = Bump(@, st.i)]
    /\ StageFrame

\* op_kernel/pdist.cpp:57: inQueueI.EnQue(rowI)
StEnQueRowI ==
    /\ st.pc = "enqI"
    /\ st' = [st EXCEPT !.pc = "deqI", !.qI = EnQue(@)]
    /\ StageFrame

\* op_kernel/pdist.cpp:58, 60: rowI = inQueueI.DeQue(); j = i + 1
StDeQueRowI ==
    /\ st.pc = "deqI"
    /\ st' = [st EXCEPT !.pc = "inner", !.qI = DeQue(@),
                        !.badDeQue = @ \/ st.qI.enq = 0,
                        !.j = KU32(st.i + 1)]
    /\ StageFrame

\* op_kernel/pdist.cpp:60: the inner loop's test j < n
StInnerTest ==
    /\ st.pc = "inner"
    /\ st' = [st EXCEPT !.pc = IF st.j < st.n THEN "allocJ" ELSE "freeI",
                        !.jFetches = 0]
    /\ StageFrame

\* op_kernel/pdist.cpp:70: rowJ = inQueueJ.AllocTensor()
StAllocRowJ ==
    /\ st.pc = "allocJ"
    /\ st' = [st EXCEPT !.pc = "copyJ", !.qJ = AllocTensor(@),
                        !.badAlloc = @ \/ st.qJ.alloc >= BUFFER_NUM]
    /\ StageFrame

\* op_kernel/pdist.cpp:71: CopyRow(rowJ, j)
StCopyRowJ ==
    /\ st.pc = "copyJ"
    /\ st' = [st EXCEPT !.pc = "enqJ", !.pendingJ = @ + 1, !.jFetches = @ + 1,
                        !.overlapSeen = @ \/ st.computing]
    /\ StageFrame

\* op_kernel/pdist.cpp:72: inQueueJ.EnQue(rowJ)
StEnQueRowJ ==
    /\ st.pc = "enqJ"
    /\ st' = [st EXCEPT !.pc = "deqJ", !.qJ = EnQue(@)]
    /\ StageFrame

\* op_kernel/pdist.cpp:73: rowJ = inQueueJ.DeQue()
StDeQueRowJ ==
    /\ st.pc = "deqJ"
    /\ st' = [st EXCEPT !.pc = "allocOut", !.qJ = DeQue(@),
                        !.badDeQue = @ \/ st.qJ.enq = 0]
    /\ StageFrame

\* op_kernel/pdist.cpp:75-76: outLocal and workLocal are allocated
StAllocOutWork ==
    /\ st.pc = "allocOut"
    /\ st' = [st EXCEPT !.pc = "vector", !.qO = AllocTensor(@), !.qW = AllocTensor(@),
                        !.badAlloc = @ \/ st.qO.alloc >= OutDepth
                                       \/ st.qW.alloc >= WorkDepth]
    /\ StageFrame

\* op_kernel/pdist.cpp:81-106: the vector instructions on rowI and rowJ
StVector ==
    /\ st.pc = "vector"
    /\ st' = [st EXCEPT !.pc = "write", !.computing = TRUE,
                        !.pendingJ = IF @ > 0 THEN @ - 1 ELSE 0]
    /\ StageFrame

\* op_kernel/pdist.cpp:111-117: result = outLocal.GetValue(0);
\* yRaw[outIdx] = result
StWrite ==
    /\ st.pc = "write"
    /\ LET outIdx == OutIdx(st.n, st.i, st.j)
       IN st' = [st EXCEPT !.pc = "freeJ", !.computing = FALSE,
                           !.ordered = @ /\ st.held = st.i /\ st.j = st.lastJ + 1
                                         /\ st.jFetches = 1,
                           !.lastJ = st.j,
                           !.increasing = @ /\ outIdx > st.lastOut,
                           !.lastOut = outIdx]
    /\ StageFrame

\* the inner iteration's end with workLocal never freed
StFreeJLeak ==
    /\ st.pc = "freeJ"
    /\ st' = [st EXCEPT !.pc = "inner", !.qJ = FreeTensor(@), !.qO = FreeTensor(@),
                        !.j = KU32(st.j + 1)]
    /\ StageFrame

\* op_kernel/pdist.cpp:119-123, 60: rowJ, outLocal and workLocal are freed;
\* ++j
StFreeJ ==
    /\ st.pc = "freeJ"
    /\ st' = [st EXCEPT !.pc = "inner", !.qJ = FreeTensor(@), !.qO = FreeTensor(@),
                        !.qW = FreeTensor(@), !.j = KU32(st.j + 1)]
    /\ StageFrame

\* op_kernel/pdist.cpp:64, 54: inQueueI.FreeTensor(rowI); i += totalCoreNum
StFreeRowI ==
    /\ st.pc = "freeI"
    /\ st' = [st EXCEPT !.pc = "outer", !.qI = FreeTensor(@), !.held = -1,
                        !.ordered = @ /\ (st.lastJ = st.n - 1),
                        !.i = KU32(st.i + st.totalCoreNum)]
    /\ StageFrame

\* ------------------------------------------------------------------ inputs
DTypes == {"DT_FLOAT", "DT_FLOAT16"}
NoAttr == [present |-> FALSE, val |-> Fp(0)]
Attr(v) == [present |-> TRUE, val |-> v]

\* element values of the input matrix and of the memory behind it
XVals == {0, 3}
TailVals == {0, 5}
\* a matrix too large to enumerate is one of two fixed ones; the first
\* repeats the rows [0,0],[3,4],[0,0],[6,8]
Example == <<0, 0, 3, 4, 0, 0, 6, 8>>
Matrices(n, m) ==
    IF n * m <= MaxCells
    THEN [1..(n * m) -> XVals]
    ELSE { [e \in 1..(n * m) |-> Example[((e - 1) % Len(Example)) + 1]],
           [e \in 1..(n * m) |-> (e * e) % 5] }

FreshHost ==
    /\ phase = "infer"
    /\ inferStatus = "none"
    /\ yShape = <<-1>>
    /\ tilingStatus = "none"
    /\ blockDim = -1
    /\ rawTiling = [off \in TilingOffsets |-> Untouched]
    /\ dataSize = 0

FreshDevice ==
    /\ unit = <<>>
    /\ yRaw = <<>>
    /\ written = <<>>
    /\ writers = <<>>
    /\ calls = <<>>
    /\ st = IdleStage

\* The operator on float inputs small enough to run: a handful of rows of
\* 1, 2 or 8 columns with any of the exponents on up to MaxCores cores.
SmallRuns ==
    {r \in [n : 0..MaxN, m : {1, 2, 8},
            a : {NoAttr, Attr(Fp(1)), Attr(Fp(3)), Attr(FpInf)},
            c : 0..MaxCores, t : TailVals] :
        r.m = 1 => r.n <= MaxCells}

\* A single all-zero column with p = 1: just over half as many rows as
\* uint32_t holds on one core, and as many rows as it holds on two.
LongRuns ==
    {[n |-> KernelMod \div 2 + 1, m |-> 1, a |-> Attr(Fp(1)), c |-> 1, t |-> 0],
     [n |-> KernelMod - 1, m |-> 1, a |-> Attr(Fp(1)), c |-> 2, t |-> 0]}

RunCtx(r) ==
    [dim0 |-> r.n, dim1 |-> r.m, pAttr |-> r.a, dtype |-> "DT_FLOAT",
     platformInfo |-> TRUE, aicoreNum |-> r.c,
     inShapeOk |-> TRUE, outShapeOk |-> TRUE]

Init ==
    /\ \E r \in SmallRuns :
          /\ ctx = RunCtx(r)
          /\ xGm \in Matrices(r.n, r.m)
          /\ xTail = r.t
    /\ FreshHost
    /\ FreshDevice

InitLong ==
    /\ \E r \in LongRuns :
          /\ ctx = RunCtx(r)
          /\ xGm = [e \in 1..(r.n * r.m) |-> 0]
          /\ xTail = r.t
    /\ FreshHost
    /\ FreshDevice

\* The operator on half-precision inputs: up to MaxHalfN all-zero rows of
\* 1, 5 or 16 columns.
HalfRuns ==
    [n : 0..MaxHalfN, m : {1, 5, 16},
     a : {NoAttr, Attr(Fp(1)), Attr(Fp(3))}, c : 0..MaxCores, t : {0}]

InitHalf ==
    /\ \E r \in HalfRuns :
          /\ ctx = [RunCtx(r) EXCEPT !.dtype = "DT_FLOAT16"]
          /\ xGm = [e \in 1..(r.n * r.m) |-> 0]
          /\ xTail = r.t
    /\ FreshHost
    /\ FreshDevice

\* One launched core at the point where Init has run (op_kernel/
\* pdist.cpp:26-48) on a plan the planner made: a few rows on up to MaxCores
\* cores, and the row counts of the long runs.
StageRuns ==
    [n : 0..MaxN, m : {1}, a : {NoAttr}, c : 1..MaxCores, t : {0}]
        \cup {[r EXCEPT !.a = NoAttr] : r \in LongRuns}

InitStage ==
    /\ \E r \in StageRuns :
          /\ ctx = RunCtx(r)
          /\ xGm = [e \in 1..(r.n * r.m) |-> 0]
          /\ xTail = r.t
          /\ \E u \in 0..(TilingOf(RunCtx(r)).usedCoreNum.v - 1) :
                st = [IdleStage EXCEPT
                         !.pc = "entry",
                         !.n = KU32(TilingOf(RunCtx(r)).n.v),
                         !.totalCoreNum = KU32(TilingOf(RunCtx(r)).usedCoreNum.v),
                         !.coreId = u]
    /\ phase = "run"
    /\ inferStatus = "GRAPH_SUCCESS"
    /\ yShape = <<(ctx.dim0 * (ctx.dim0 - 1)) \div 2>>
    /\ tilingStatus = "GRAPH_SUCCESS"
    /\ blockDim = TilingOf(ctx).usedCoreNum.v
    /\ rawTiling = SaveToBuffer(TilingOf(ctx))
    /\ dataSize = LayoutSize(PdistTilingData)
    /\ unit = [u \in 0..(blockDim - 1) |-> IdleUnit]
    /\ yRaw = <<>>
    /\ written = <<>>
    /\ writers = <<>>
    /\ calls = <<>>

NextStage ==
    \/ StProcess
    \/ StOuterTest
    \/ StAllocRowI
    \/ StCopyRowI
    \/ StEnQueRowI
    \/ StDeQueRowI
    \/ StInnerTest
    \/ StAllocRowJ
    \/ StCopyRowJ
    \/ StEnQueRowJ
    \/ StDeQueRowJ
    \/ StAllocOutWork
    \/ StVector
    \/ StWrite
    \/ StFreeJ
    \/ StFreeRowI

SpecStage == InitStage /\ [][NextStage]_vars

Next ==
    \/ InferShape
    \/ TilingFunc
    \/ Launch
    \/ \E u \in 0..MaxCores : pdist(u)
    \/ \E u \in 0..MaxCores : OuterStep(u)
    \/ \E u \in 0..MaxCores : ComputeAndSave(u)
    \/ \E u \in 0..MaxCores : InnerExit(u)

Spec == Init /\ [][Next]_vars
SpecLong == InitLong /\ [][Next]_vars
SpecHalf == InitHalf /\ [][Next]_vars

\* The planner alone, on every row count and every row width of uint32_t.
PlanSmall == {0, 1, 5, 8}
PlanShapes ==
    {<<n, m>> : n \in 0..(HostMod - 1), m \in PlanSmall}
        \cup {<<n, m>> : n \in PlanSmall, m \in 0..(HostMod - 1)}

InitPlan ==
    /\ \E s \in PlanShapes, a \in {NoAttr, Attr(Fp(1)), Attr(FpInf)},
          d \in DTypes, pi \in BOOLEAN, c \in (0..MaxCores) \cup {HostMod \div 2},
          ok \in {<<TRUE, TRUE>>, <<FALSE, TRUE>>, <<TRUE, FALSE>>} :
          ctx = [dim0 |-> s[1], dim1 |-> s[2], pAttr |-> a, dtype |-> d,
                 platformInfo |-> pi, aicoreNum |-> c,
                 inShapeOk |-> ok[1], outShapeOk |-> ok[2]]
    /\ xGm = <<>>
    /\ xTail = 0
    /\ FreshHost
    /\ FreshDevice

NextPlan ==
    \/ InferShape
    \/ TilingFunc

SpecPlan == InitPlan /\ [][NextPlan]_vars

\* ------------------------------------------------------------------ CPU reference
\* TestPdist/main.cpp:44, 54: |x[i*m+k] - x[j*m+k]|
CpuDiff(x, m, i, j, k) == AbsVal(x[i * m + k + 1] - x[j * m + k + 1])

RECURSIVE CpuMaxDiff(_, _, _, _, _, _)
\* TestPdist/main.cpp:42-49: the loop over k keeping the largest difference
CpuMaxDiff(x, m, i, j, k, max_diff) ==
    IF k >= m THEN max_diff
    ELSE CpuMaxDiff(x, m, i, j, k + 1,
                    IF CpuDiff(x, m, i, j, k) > max_diff
                    THEN CpuDiff(x, m, i, j, k) ELSE max_diff)

\* std::pow(diff, p) for integers diff >= 0, p >= 0
CpuPow(d, v) == IF v = 0 THEN 1 ELSE d ^ v

RECURSIVE CpuSum(_, _, _, _, _, _, _)
\* TestPdist/main.cpp:52-56: the loop over k adding pow(diff, p)
CpuSum(x, m, v, i, j, k, sum) ==
    IF k >= m THEN sum
    ELSE CpuSum(x, m, v, i, j, k + 1, sum + CpuPow(CpuDiff(x, m, i, j, k), v))

\* TestPdist/main.cpp:38-58: the reference's result for one pair
CpuResult(x, m, p, i, j) ==
    IF p.inf THEN Fin(CpuMaxDiff(x, m, i, j, 0, 0))
    ELSE LET sum == CpuSum(x, m, p.v, i, j, 0, 0)
         IN IF p.v = 0
            THEN (IF sum > 1 THEN Inf ELSE Fin(sum))
            ELSE RootOf(sum, p.v)

RECURSIVE CpuLoop(_, _, _, _, _, _, _)
\* TestPdist/main.cpp:33-62: both loops; y[out_idx++] = result appends.
CpuLoop(x, n, m, p, i, j, y) ==
    IF i >= n THEN y
    ELSE IF j >= n THEN CpuLoop(x, n, m, p, i + 1, i + 2, y)
    ELSE CpuLoop(x, n, m, p, i, j + 1, Append(y, CpuResult(x, m, p, i, j)))

cpu_pdist(x, n, m, p) == CpuLoop(x, n, m, p, 0, 1, <<>>)

RECURSIVE CpuCount(_, _, _, _, _, _)
\* TestPdist/main.cpp:33-62: the value of out_idx when the loops reach the
\* pair (i, j), counted from the pair (a, b) with out_idx = cnt.
CpuCount(n, a, b, i, j, cnt) ==
    IF a >= n THEN cnt
    ELSE IF b >= n THEN CpuCount(n, a + 1, a + 2, i, j, cnt)
    ELSE IF a = i /\ b = j THEN cnt
    ELSE CpuCount(n, a, b + 1, i, j, cnt + 1)

CpuOutIdx(n, i, j) == CpuCount(n, 0, 1, i, j, 0)

\* ------------------------------------------------------------------ views
\* a field of the plan as the planner serialised it
PlanField(name) ==
    rawTiling[OffsetOf(PdistTilingData, FieldIndex(PdistTilingData, name))]

Running == phase = "run"
AllDone == Running /\ \A u \in DOMAIN unit : unit[u].pc = "done"
Started(u) == u \in DOMAIN unit /\ unit[u].pc # "entry"
AllPairs(n) == {pr \in (0..(n - 1)) \X (0..(n - 1)) : pr[1] < pr[2]}

\* ------------------------------------------------------------------ properties
PlanMade == tilingStatus = "GRAPH_SUCCESS"

C6_ActiveUnitSelection ==
    PlanMade =>
        LET used == PlanField("usedCoreNum").v.v
        IN /\ ctx.dim0 < ctx.aicoreNum => used = 1
           /\ ctx.dim0 >= ctx.aicoreNum => used = ctx.aicoreNum
           /\ used <= ctx.aicoreNum
           /\ blockDim = used

C6_Witness ==
    /\ PlanMade
    /\ ctx.aicoreNum > 1
    /\ ctx.dim0 < ctx.aicoreNum
    /\ ctx.dim1 > 1
    /\ ctx.pAttr.present
    /\ blockDim = 1

\* C8: TilingFunc fails exactly when the platform descriptor is null, and
\* then SetBlockDim was not called, no word of the raw buffer was stored and
\* its data size was not set; otherwise it succeeds with the block
\* dimension set, all six fields stored and the data size set.
C8_PlannerFailure ==
    /\ tilingStatus # "none" => (tilingStatus = "GRAPH_FAILED" <=> ~ctx.platformInfo)
    /\ tilingStatus # "none" => tilingStatus \in {"GRAPH_FAILED", "GRAPH_SUCCESS"}
    /\ tilingStatus = "GRAPH_FAILED" =>
          /\ blockDim = -1
          /\ \A off \in DOMAIN rawTiling : rawTiling[off].ty = "none"
          /\ dataSize = 0
    /\ tilingStatus = "GRAPH_SUCCESS" =>
          /\ blockDim >= 0
          /\ \A k \in 0..5 : rawTiling[4 * k].ty # "none"
          /\ PlanField("n").v.v = ctx.dim0
          /\ PlanField("m").v.v = ctx.dim1
          /\ PlanField("p").v = (IF ctx.pAttr.present THEN ctx.pAttr.val ELSE Fp(2))
          /\ PlanField("tilingKey").v.v = 1
          /\ dataSize = 24

C8_Witness ==
    /\ tilingStatus = "GRAPH_FAILED"
    /\ ~ctx.platformInfo
    /\ ctx.dim0 >= ctx.aicoreNum
    /\ ctx.aicoreNum > 0

\* C9: InferShape on input shape [n, m] succeeds with the output shape
\* [n*(n-1)/2], which is the number of pairs the kernel writes; when the
\* input or the output shape is null it fails and leaves the output shape
\* as it was.
C9_ShapeInference ==
    /\ inferStatus # "none" =>
          IF ctx.inShapeOk /\ ctx.outShapeOk
          THEN /\ inferStatus = "GRAPH_SUCCESS"
               /\ yShape = <<(ctx.dim0 * (ctx.dim0 - 1)) \div 2>>
          ELSE /\ inferStatus = "GRAPH_FAILED"
               /\ yShape = <<-1>>
    /\ AllDone => Cardinality(DOMAIN calls) = yShape[1]

\* the inputs of the run
RunN == ctx.dim0
RunM == ctx.dim1
RunP == IF ctx.pAttr.present THEN ctx.pAttr.val ELSE Fp(2)

\* C1: with at least one active core, ComputeAndSave is invoked on pairs
\* (i, j) with i < j < n only, on no pair twice, and once all cores have
\* returned on every such pair.
C1_PartitionCompleteness ==
    (Running /\ blockDim >= 1) =>
        /\ \A pr \in DOMAIN calls :
              /\ pr[1] < pr[2]
              /\ pr[2] < RunN
              /\ calls[pr] = 1
        /\ AllDone => DOMAIN calls = AllPairs(RunN)

\* the row-major rank of each pair of the upper triangle for n = 5
RankTable5 ==
    (<<0, 1>> :> 0) @@ (<<0, 2>> :> 1) @@ (<<0, 3>> :> 2) @@ (<<0, 4>> :> 3) @@
    (<<1, 2>> :> 4) @@ (<<1, 3>> :> 5) @@ (<<1, 4>> :> 6) @@ (<<2, 3>> :> 7) @@
    (<<2, 4>> :> 8) @@ (<<3, 4>> :> 9)

\* C2: for every pair a core is about to compute, the output index of
\* ComputeAndSave is the value the reference's counter out_idx has at that
\* pair; for n = 5 it is the tabulated rank.
C2_IndexFormula ==
    \A u \in DOMAIN unit :
        (unit[u].pc = "inner" /\ unit[u].j < unit[u].n) =>
            /\ OutIdx(unit[u].n, unit[u].i, unit[u].j)
                  = CpuOutIdx(unit[u].n, unit[u].i, unit[u].j)
            /\ unit[u].n = 5 =>
                  OutIdx(unit[u].n, unit[u].i, unit[u].j)
                      = RankTable5[<<unit[u].i, unit[u].j>>]

\* what the kernel computes for the pair (i, j) of the run's input
KernelValue(i, j) ==
    LET k == [m |-> RunM, tileLength |-> PlanField("tileLength").v.v]
    IN Distance(CopyRow(k, i), CopyRow(k, j), RunP)

PairAt(idx) == CHOOSE pr \in AllPairs(RunN) : CpuOutIdx(RunN, pr[1], pr[2]) = idx

\* C3: every output element is written by one core only and once only, and
\* when all cores have returned the output vector holds, whatever the
\* interleaving was, one and the same content at the indices 0 .. n(n-1)/2 - 1.
C3_WriteDisjointness ==
    Running =>
        /\ \A idx \in DOMAIN written :
              /\ written[idx] = 1
              /\ Cardinality(writers[idx]) = 1
        /\ (AllDone /\ blockDim >= 1) =>
              /\ DOMAIN yRaw = 0..((RunN * (RunN - 1)) \div 2 - 1)
              /\ \A idx \in DOMAIN yRaw :
                    yRaw[idx] = KernelValue(PairAt(idx)[1], PairAt(idx)[2])

\* the sum over the m real columns of |x[i][k] - x[j][k]|^e
RECURSIVE ColumnSum(_, _, _, _)
ColumnSum(i, j, e, k) ==
    IF k = 0 THEN 0
    ELSE ColumnSum(i, j, e, k - 1)
           + AbsVal(xGm[i * RunM + k] - xGm[j * RunM + k]) ^ e

\* C4: for p = 1 and p = 2 the value written for a pair (i, j) is the
\* distance over the m real columns, at the pair's offset; the run n=4,
\* m=2, p=2 on the rows [0,0],[3,4],[0,0],[6,8] ends with [5,0,10,5,10,5].
C4_DistanceValue ==
    (Running /\ RunP \in {Fp(1), Fp(2)}) =>
        /\ \A pr \in DOMAIN calls :
              LET off == ((2 * RunN - 1 - pr[1]) * pr[1]) \div 2 + (pr[2] - pr[1] - 1)
              IN /\ off \in DOMAIN yRaw
                 /\ yRaw[off] = (IF RunP = Fp(1)
                                 THEN Fin(ColumnSum(pr[1], pr[2], 1, RunM))
                                 ELSE RootOf(ColumnSum(pr[1], pr[2], 2, RunM), 2))
        /\ (AllDone /\ blockDim >= 1 /\ RunN = 4 /\ RunM = 2 /\ RunP = Fp(2)
                /\ xGm = Example) =>
              yRaw = (0 :> Fin(5)) @@ (1 :> Fin(0)) @@ (2 :> Fin(10)) @@
                     (3 :> Fin(5)) @@ (4 :> Fin(10)) @@ (5 :> Fin(5))

\* C7: the host record and the kernel struct have the same six fields in
\* the same order with the same widths, and on every core that has run
\* Init, n, m, p, tileLength and totalCoreNum are the values the planner
\* gave to set_n, set_m, set_p, set_tileLength and set_usedCoreNum.
C7_TilingRoundTrip ==
    /\ Len(PdistTilingData) = 6
    /\ Len(KernelTilingData) = 6
    /\ \A k \in 1..6 :
          /\ PdistTilingData[k].name = KernelTilingData[k].name
          /\ SizeOf(PdistTilingData[k].ty) = SizeOf(KernelTilingData[k].ty)
    /\ \A u \in DOMAIN unit :
          Started(u) =>
              /\ unit[u].n = TilingOf(ctx).n.v
              /\ unit[u].m = TilingOf(ctx).m.v
              /\ unit[u].p = TilingOf(ctx).p
              /\ unit[u].tileLength = TilingOf(ctx).tileLength.v
              /\ unit[u].totalCoreNum = TilingOf(ctx).usedCoreNum.v

C7_Witness ==
    \E u \in DOMAIN unit :
        /\ Started(u)
        /\ Cardinality({unit[u].n, unit[u].m, unit[u].tileLength,
                        unit[u].totalCoreNum}) = 4
        /\ unit[u].p = Fp(3)

\* C10: for an exponent other than 1 and 2, when all cores have returned
\* the output vector equals, index by index, the vector the reference
\* cpu_pdist computes from the same input.
C10_ReferenceAgreement ==
    (AllDone /\ blockDim >= 1 /\ RunP \notin {Fp(1), Fp(2)}) =>
        LET yRef == cpu_pdist(xGm, RunN, RunM, RunP)
        IN \A idx \in 0..(Len(yRef) - 1) :
              /\ idx \in DOMAIN yRaw
              /\ yRaw[idx] = yRef[idx + 1]

\* the rows whose fetch a core has issued most recently: the row it holds
\* in rowI and the row of its last inner iteration
FetchedRows(u) ==
    IF unit[u].pc # "inner" THEN {}
    ELSE {unit[u].i} \cup (IF unit[u].j > unit[u].i + 1 THEN {unit[u].j - 1} ELSE {})

\* the general branch's sum over the m real columns of the rows i and j,
\* each term computed as exp(p * ln(|d| + 1e-20)), with no root taken
ColumnPowSum(i, j, p) ==
    ReduceSumVals([c \in 1..RunM |->
        ExpPLn(AbsVal(xGm[i * RunM + c] - xGm[j * RunM + c]), p)])

\* C11: for every exponent other than 1 and 2 (the branch is chosen by
\* exact equality) the value written for a pair (i, j) is the sum over the
\* row's columns k of |x[i][k] - x[j][k]|^p, with no root applied.
C11_UnrootedSum ==
    (Running /\ RunP \notin {Fp(1), Fp(2)}) =>
        \A pr \in DOMAIN calls :
            LET off == CpuOutIdx(RunN, pr[1], pr[2])
            IN /\ off \in DOMAIN yRaw
               /\ yRaw[off] = ColumnPowSum(pr[1], pr[2], RunP)

\* C12: every row fetch a core has issued reads the elements
\* [rowIdx*m, rowIdx*m + tileLength), all of them inside the input matrix
\* [0, n*m), and the 32-bit offset rowIdx*m is the mathematical product.
C12_RowFetchInBounds ==
    \A u \in DOMAIN unit :
        \A r \in FetchedRows(u) :
            /\ CopyRowOffset(unit[u], r) = r * unit[u].m
            /\ CopyRowRange(unit[u], r) =
                  {r * unit[u].m + c : c \in 0..(unit[u].tileLength - 1)}
            /\ CopyRowRange(unit[u], r) \subseteq 0..(RunN * RunM - 1)

\* the pairs whose write a core has performed most recently
WrittenPairs(u) ==
    IF unit[u].pc = "inner" /\ unit[u].j > unit[u].i + 1
    THEN {<<unit[u].i, unit[u].j - 1>>} ELSE {}

\* C13: with w the width of the input's element type (4 for float, 2 for
\* half), a core fetches row r from byte offset r*m*w with length
\* tileLength*w, its staging slots hold tileLength*w bytes, and the result
\* of pair (i, j) goes to the w bytes at byte offset offset(i, j)*w, inside
\* the output buffer of n(n-1)/2 * w bytes.
C13_ElementWidth ==
    LET w == TypeSizeOf(ctx.dtype)
    IN \A u \in DOMAIN unit :
          /\ \A r \in FetchedRows(u) :
                /\ FetchBytes(unit[u], r).off = r * unit[u].m * w
                /\ FetchBytes(unit[u], r).len = unit[u].tileLength * w
                /\ SlotBytes(unit[u]) = unit[u].tileLength * w
          /\ \A pr \in WrittenPairs(u) :
                LET b == WriteBytes(unit[u], pr[1], pr[2])
                IN /\ b.off = CpuOutIdx(RunN, pr[1], pr[2]) * w
                   /\ b.len = w
                   /\ b.off + b.len <= ((RunN * (RunN - 1)) \div 2) * w

\* C14: on a core, no queue ever holds more allocated tensors than its
\* depth (2, 2, 1, 1), no AllocTensor is issued on a queue without a free
\* slot, at most one fetched row j is waiting to be consumed, no DeQue
\* precedes its EnQue, and when Process has returned every tensor of every
\* queue has been freed.
C14_StagingBalance ==
    /\ st.qI.alloc <= BUFFER_NUM
    /\ st.qJ.alloc <= BUFFER_NUM
    /\ st.qW.alloc <= WorkDepth
    /\ st.qO.alloc <= OutDepth
    /\ ~st.badAlloc
    /\ st.pendingJ <= 1
    /\ ~st.badDeQue
    /\ st.pc = "done" =>
          /\ st.qI = EmptyQue
          /\ st.qJ = EmptyQue
          /\ st.qW = EmptyQue
          /\ st.qO = EmptyQue

C14_Witness ==
    /\ st.pc = "done"
    /\ Cardinality(DOMAIN st.fetchI) >= 2
    /\ st.lastOut >= 2
    /\ st.qW = EmptyQue

\* C15: a core whose inner loop ran at least twice for one row has been in
\* a state where the fetch of row j+1 was issued while the work on row j
\* (the vector instructions and the write for pair (i, j)) was not complete.
C15_FetchComputeOverlap ==
    (st.pc = "done" /\ st.coreId + 2 < st.n) => st.overlapSeen

\* C16: a core fetches each row i it owns once, holds it until the writes
\* for all pairs (i, j) are done in increasing j, each with one fetch of
\* row j, before it fetches its next row; the output indices it writes are
\* strictly increasing.
C16_PerUnitOrdering ==
    /\ \A r \in DOMAIN st.fetchI : st.fetchI[r] = 1
    /\ st.ordered
    /\ st.increasing

\* C17: every core's Process returns: each pass of the outer loop leaves
\* the loop counter i larger than it was (i += totalCoreNum does not wrap
\* back below n), and once all launched cores have returned exactly
\* n(n-1)/2 output writes (one per ComputeAndSave) have been performed,
\* also when no core is active.
C17_Termination ==
    [][/\ \A u \in DOMAIN unit :
             (unit[u].pc = "inner" /\ unit'[u].pc = "outer") =>
                 unit'[u].i > unit[u].i
       /\ AllDone' =>
             /\ \A pr \in DOMAIN calls' : calls'[pr] = 1
             /\ Cardinality(DOMAIN calls') = (RunN * (RunN - 1)) \div 2]_vars

====
